---- MODULE Spec2Model ----
(***************************************************************************)
(* Model of chain-vote's tally recovery and decryption proof:              *)
(*   - gang/babystep.rs: BabyStepsTable and baby_step_giant_step           *)
(*   - cryptography/zkps/decr_nizk.rs: ProofDecrypt                        *)
(*                                                                         *)
(* The elliptic-curve group is a cyclic group of prime order, so it is     *)
(* modelled as the integers modulo GroupOrder under addition, with the     *)
(* generator 1 and the identity 0; scalars are the integers modulo         *)
(* GroupOrder.  The machine integer u64 is scaled down to U64Bits bits; as *)
(* in the program, the group order is far larger than the largest u64.     *)
(***************************************************************************)
EXTENDS Integers, Sequences, FiniteSets, TLC

\* ------------------------------------------------------------------ scale

\* Order of the group and of the scalar field (a prime; 2^252 + ... in the crate).
GroupOrder == 37

\* Width of the machine integer u64, scaled down.
U64Bits == 4

U64 == 2 ^ U64Bits

\* Bounds on the inputs the specifications enumerate.
MaxValue == 9

MaxBalance == 2

MaxBatch == 2

MaxBatchLog == 4

MaxBatchValue == 4

MaxScalar == 3

MaxInput == 1

\* GroupElement::BYTES_LEN and Scalar::BYTES_LEN, scaled down, and the number
\* of values of a byte (u8), scaled down.
GroupElement_BYTES_LEN == 2

Scalar_BYTES_LEN == 2

ByteBase == 7

\* const DEFAULT_BALANCE: u64 = 2;
DEFAULT_BALANCE == 2

GroupElements == 0 .. (GroupOrder - 1)

Scalars == 0 .. (GroupOrder - 1)

U64Values == 0 .. (U64 - 1)

\* overflow-checks on (debug and test profiles) or off (release profile)
Builds == {"debug", "release"}

\* ------------------------------------------------------------ group model

\* GroupElement::generator()
generator == 1

\* GroupElement::zero()
zero == 0

\* &a + &b on group elements
GAdd(x, y) == (x + y) % GroupOrder

\* &a - &b on group elements
GSub(x, y) == (x - y + GroupOrder) % GroupOrder

\* group element * scalar
GMul(g, s) == (g * s) % GroupOrder

\* Scalar::from_u64
from_u64(n) == n % GroupOrder

\* Scalar::negate
negate(s) == (GroupOrder - s) % GroupOrder

\* scalar * scalar and scalar + scalar
SMul(s, t) == (s * t) % GroupOrder

SAdd(s, t) == (s + t) % GroupOrder

\* GroupElement::compress().map(|(c, _sign)| c.to_bytes()): the identity has no
\* coordinate (None, the empty tuple); a point and its negation share theirs.
compress(g) ==
  IF g = zero THEN << >>
  ELSE IF g <= GroupOrder - g THEN << g >> ELSE << GroupOrder - g >>

\* ------------------------------------------------------------ u64 arithmetic

\* a * b, a + b, a - b on u64: the wrapped value, and whether it overflowed.
MulU64(x, y) == [v |-> (x * y) % U64, ovf |-> x * y >= U64]

AddU64(x, y) == [v |-> (x + y) % U64, ovf |-> x + y >= U64]

SubU64(x, y) == [v |-> (x - y + U64) % U64, ovf |-> x < y]

\* (max_value as f64).sqrt().ceil() as u64
CeilSqrt(n) == CHOOSE s \in 0 .. n : s * s >= n /\ \A t \in 0 .. n : t * t >= n => s <= t

\* ------------------------------------------------------------ table

\* The HashMap after `for i in 0..=baby_step_size / 2 { bs.insert(compress(e), i); e += gen }`:
\* a later insert under the same key replaces the earlier one.
BabySteps(baby_step_size) ==
  LET last == baby_step_size \div 2
      keys == { compress(from_u64(i)) : i \in 0 .. last }
  IN [ k \in keys |->
         CHOOSE i \in 0 .. last :
            /\ compress(from_u64(i)) = k
            /\ \A j \in 0 .. last : compress(from_u64(j)) = k => j <= i ]

\* BabyStepsTable::generate_with_balance
generate_with_balance(max_value, balance) ==
  LET sqrt_step_size == CeilSqrt(max_value)
      baby_step_size == MulU64(sqrt_step_size, balance).v
  IN [ table          |-> BabySteps(baby_step_size),
       baby_step_size |-> baby_step_size,
       giant_step     |-> GMul(generator, negate(from_u64(baby_step_size))) ]

\* BabyStepsTable::generate
generate(max_value) == generate_with_balance(max_value, DEFAULT_BALANCE)

\* `sqrt_step_size * balance` panics on overflow when overflow checks are on.
TableConstructible(b, max_value, balance) ==
  b = "debug" => ~MulU64(CeilSqrt(max_value), balance).ovf

\* ------------------------------------------------------------ solver state

VARIABLES
  build,      \* overflow checks of the build: "debug" or "release"
  max_value,  \* arguments the table was generated with
  balance,
  table,      \* the BabyStepsTable
  max_log,    \* argument of baby_step_giant_step
  points,     \* argument of baby_step_giant_step: the targets, in input order
  p,          \* p[i]: the closure's `p` for the i-th target
  a,          \* a[i]: the closure's `a` for the i-th target
  res,        \* res[i]: what the closure returned for the i-th target, if it has
  order,      \* indices of the targets in the order their closures finished
  output,     \* what baby_step_giant_step returned, if it has
  prf,        \* decryption proof protocol state (see below)
  codec,      \* proof serialization state (see below)
  vrf         \* VRF proof release state (see below)

vars == << build, max_value, balance, table, max_log, points, p, a, res, order, output, prf, codec, vrf >>

solverVars == << build, max_value, balance, table, max_log, points, p, a, res, order, output >>

Idle == [ pc |-> "idle" ]

Running == [ tag |-> "Running", val |-> 0, ovf |-> FALSE ]

Pending == [ tag |-> "Pending", val |-> << >> ]

\* One iteration of the closure's `loop` for a target whose state is (pp, aa):
\* the closure's return value if the iteration returns, a panic if an overflow
\* check fails, the next (p, a) otherwise.  `ovf` records that the computation
\* of the returned value, a * baby_step_size + x or a * baby_step_size - x,
\* left the u64 range (it wraps silently when overflow checks are off).
loop_iteration(tbl, maxlog, b, pp, aa) ==
  LET key  == compress(pp)
      prod == MulU64(aa, tbl.baby_step_size)
  IN IF key \in DOMAIN tbl.table
     THEN LET x == tbl.table[key]
              r == IF GMul(generator, from_u64(x)) = pp
                   THEN AddU64(prod.v, x)
                   ELSE SubU64(prod.v, x)
              o == prod.ovf \/ r.ovf
          IN IF b = "debug" /\ o
             THEN [ tag |-> "Panic", val |-> 0, ovf |-> TRUE, p |-> pp, a |-> aa ]
             ELSE [ tag |-> "Ok", val |-> r.v, ovf |-> o, p |-> pp, a |-> aa ]
     ELSE IF b = "debug" /\ prod.ovf
     THEN [ tag |-> "Panic", val |-> 0, ovf |-> FALSE, p |-> pp, a |-> aa ]
     ELSE IF prod.v > maxlog
     THEN [ tag |-> "Err", val |-> 0, ovf |-> FALSE, p |-> pp, a |-> aa ]
     ELSE LET nxt == AddU64(aa, 1)
          IN IF b = "debug" /\ nxt.ovf
             THEN [ tag |-> "Panic", val |-> 0, ovf |-> FALSE, p |-> pp, a |-> aa ]
             ELSE [ tag |-> "Running", val |-> 0, ovf |-> FALSE,
                    p |-> GAdd(pp, tbl.giant_step), a |-> nxt.v ]

\* A collect that pushes the values in the order the closures finish.
collect_in_completion_order(results, completion) ==
  IF \E i \in DOMAIN results : results[i].tag = "Panic"
  THEN [ tag |-> "Panic", val |-> << >> ]
  ELSE IF \E i \in DOMAIN results : results[i].tag = "Err"
  THEN [ tag |-> "Err", val |-> << >> ]
  ELSE [ tag |-> "Ok", val |-> [ k \in DOMAIN completion |-> results[completion[k]].val ] ]

\* A collect that keeps the values of a batch in which a target failed.
collect_keeping_successes(results, completion) ==
  IF \E i \in DOMAIN results : results[i].tag = "Panic"
  THEN [ tag |-> "Panic", val |-> << >> ]
  ELSE [ tag |-> IF \E i \in DOMAIN results : results[i].tag = "Err" THEN "Err" ELSE "Ok",
         val |-> [ i \in DOMAIN results |-> results[i].val ] ]

\* `.collect()` into Result<Vec<u64>, MaxLogExceeded> over the indexed parallel
\* iterator: the i-th entry is the i-th closure's value; any Err makes the whole
\* result Err(MaxLogExceeded); a panicking closure makes the call panic.
collect(results, completion) ==
  IF \E i \in DOMAIN results : results[i].tag = "Panic"
  THEN [ tag |-> "Panic", val |-> << >> ]
  ELSE IF \E i \in DOMAIN results : results[i].tag = "Err"
  THEN [ tag |-> "Err", val |-> << >> ]
  ELSE [ tag |-> "Ok", val |-> [ i \in DOMAIN results |-> results[i].val ] ]

\* ------------------------------------------------------------ solver actions

\* State at the call baby_step_giant_step(pts, max_log, &table), for a table
\* built by generate_with_balance: every closure starts with its target and a = 0.
InitSolver(values, balances, batches, logs) ==
  /\ build \in Builds
  /\ max_value \in values
  /\ balance \in balances
  /\ TableConstructible(build, max_value, balance)
  /\ table = generate_with_balance(max_value, balance)
  /\ max_log \in logs
  /\ points \in batches
  /\ p = points
  /\ a = [ i \in DOMAIN points |-> 0 ]
  /\ res = [ i \in DOMAIN points |-> Running ]
  /\ order = << >>
  /\ output = Pending
  /\ prf = Idle
  /\ codec = Idle
  /\ vrf = Idle

\* The worker running the i-th closure executes one iteration of its loop.
Step(i) ==
  /\ i \in DOMAIN points
  /\ res[i].tag = "Running"
  /\ LET s == loop_iteration(table, max_log, build, p[i], a[i])
     IN /\ p' = [ p EXCEPT ![i] = s.p ]
        /\ a' = [ a EXCEPT ![i] = s.a ]
        /\ res' = [ res EXCEPT ![i] = [ tag |-> s.tag, val |-> s.val,
                                        ovf |-> res[i].ovf \/ s.ovf ] ]
        /\ order' = IF s.tag = "Running" THEN order ELSE Append(order, i)
  /\ UNCHANGED << build, max_value, balance, table, max_log, points, output, prf, codec, vrf >>

\* Every closure has finished: the call returns the collected result.
Collect ==
  /\ output.tag = "Pending"
  /\ \A i \in DOMAIN points : res[i].tag # "Running"
  /\ output' = collect(res, order)
  /\ UNCHANGED << build, max_value, balance, table, max_log, points, p, a, res, order, prf, codec, vrf >>

NextSolver == (\E i \in 1 .. MaxBatch : Step(i)) \/ Collect

\* A single target: any group element, any max_log.
Init == InitSolver(0 .. MaxValue, 0 .. MaxBalance, { << g >> : g \in GroupElements }, U64Values)

Next == NextSolver

Spec == Init /\ [][Next]_vars

\* A running closure keeps running, and the call returns once all have finished.
FairSpec == Spec /\ WF_vars(Next)

\* Batches of up to MaxBatch targets, solved with a table of non-zero step
\* size: generator * k for small k, and the negation of the generator (a
\* target with no u64 discrete log).
BatchTargets == { GMul(generator, from_u64(k)) : k \in 0 .. MaxBatchLog } \cup { GSub(zero, generator) }

Batches == UNION { [ 1 .. n -> BatchTargets ] : n \in 1 .. MaxBatch }

InitBatch == InitSolver(1 .. MaxBatchValue, 1 .. MaxBalance, Batches, 0 .. MaxBatchLog)

BatchSpec == InitBatch /\ [][Next]_vars

\* ------------------------------------------------------------ solver claims

\* The discrete logarithm of a group element: the scalar x with generator * x = g.
DLog(g) == CHOOSE x \in Scalars : GMul(generator, x) = g

\* The single target of Spec is generator * x for a u64 x.
TargetLog == DLog(points[1])

Returned == output.tag # "Pending"

\* C1: for a table built with max_value >= 1 and balance >= 1, every max_log and
\* every x with 0 <= x <= max_log, the solver called on the single target
\* generator * x returns exactly x.
C1_RecoversEveryLogUpToMaxLog ==
  ( /\ max_value >= 1
    /\ balance >= 1
    /\ TargetLog <= max_log
    /\ Returned )
  => output = [ tag |-> "Ok", val |-> << TargetLog >> ]

\* C2: for a target generator * x with x > max_log the solver returns the
\* MaxLogExceeded failure, never an integer.
C2_LogAboveMaxLogFails ==
  ( TargetLog > max_log /\ Returned ) => output.tag = "Err"

\* C3: for every table generate_with_balance can build, every target and every
\* max_log, the closure's loop ends after finitely many giant steps: it reaches
\* a return (a recovered value or MaxLogExceeded).  An overflow panic is
\* counted as an end here as well, so that a violation is a loop that runs
\* forever.
C3_SearchTerminates == <>(res[1].tag \in {"Ok", "Err", "Panic"})

\* C8: whenever the solver returns an integer r for a target p then
\* generator * r = p, and the computation of r never leaves the u64 range.
C8_NoWrappedValue ==
  /\ ~res[1].ovf
  /\ res[1].tag = "Ok" => GMul(generator, from_u64(res[1].val)) = points[1]

\* C6: when the call returns the recovered values, the i-th value is the
\* discrete log of the i-th target (for every target generator * k with k a
\* u64), whatever the order in which the closures finished.
C6_BatchOrderPreserved ==
  output.tag = "Ok" =>
    \A i \in DOMAIN points :
       DLog(points[i]) \in U64Values =>
          i \in DOMAIN output.val /\ output.val[i] = DLog(points[i])

\* C6 witness: a batch of two targets with different logs whose second closure
\* finished first, returned in input order.
C6_Witness ==
  /\ output.tag = "Ok"
  /\ Len(points) = 2
  /\ order = << 2, 1 >>
  /\ DLog(points[1]) \in U64Values
  /\ DLog(points[2]) \in U64Values
  /\ points[1] # points[2]
  /\ output.val = << DLog(points[1]), DLog(points[2]) >>

ScalarSample == 0 .. MaxScalar

GroupSample == { GMul(generator, k) : k \in ScalarSample }

\* ChallengeContextProofDecrypt::new(pk, c, d).first_challenge(a1, a2): a
\* deterministic hash-to-scalar of the transcript.  The hash is an arbitrary
\* function: the value for a transcript already hashed is the value it had,
\* and any scalar is possible for a transcript hashed for the first time.
first_challenge(oracle, transcript) ==
  IF transcript \in DOMAIN oracle THEN { oracle[transcript] } ELSE ScalarSample

Transcript(pk, c, d, a1, a2) == << pk, c.e1, c.e2, d, a1, a2 >>

\* ProofDecrypt::generate, for the random scalar w it drew and the challenge e
\* it derived: the proof (a1, a2, z).
generate_proof(c, sk, w, e) ==
  [ a1 |-> GMul(generator, w),
    a2 |-> GMul(c.e1, w),
    z  |-> SAdd(SMul(sk, e), w) ]

\* A verify that checks the second equation only.
verify_second_equation_only(proof, c, m, pk, e) ==
  LET d     == GSub(c.e2, m)
      c1z   == GMul(c.e1, proof.z)
      de_a2 == GAdd(GMul(d, e), proof.a2)
  IN c1z = de_a2

\* A verify that subtracts the commitment a1 instead of adding it.
verify_subtracting_a1(proof, c, m, pk, e) ==
  LET d     == GSub(c.e2, m)
      gz    == GMul(generator, proof.z)
      he_a1 == GSub(GMul(pk, e), proof.a1)
      c1z   == GMul(c.e1, proof.z)
      de_a2 == GAdd(GMul(d, e), proof.a2)
  IN gz = he_a1 /\ c1z = de_a2

\* ProofDecrypt::verify, for the challenge e it derived.
verify(proof, c, m, pk, e) ==
  LET d     == GSub(c.e2, m)
      gz    == GMul(generator, proof.z)
      he    == GMul(pk, e)
      he_a1 == GAdd(he, proof.a1)
      c1z   == GMul(c.e1, proof.z)
      de    == GMul(d, e)
      de_a2 == GAdd(de, proof.a2)
  IN gz = he_a1 /\ c1z = de_a2

IdleSolver ==
  /\ build = "release"
  /\ max_value = 0
  /\ balance = 0
  /\ table = generate_with_balance(0, 0)
  /\ max_log = 0
  /\ points = << >>
  /\ p = << >>
  /\ a = << >>
  /\ res = << >>
  /\ order = << >>
  /\ output = Pending

\* A key pair pk = generator * sk and a ciphertext (e1, e2).
InitProof ==
  /\ IdleSolver
  /\ codec = Idle
  /\ vrf = Idle
  /\ \E sk \in ScalarSample, e1 \in GroupSample, e2 \in GroupSample :
       prf = [ pc |-> "keys", sk |-> sk, pk |-> GMul(generator, sk),
               c |-> [ e1 |-> e1, e2 |-> e2 ] ]

\* ProofDecrypt::generate(c, pk, sk, rng)
Generate ==
  /\ prf.pc = "keys"
  /\ \E w \in ScalarSample :
       LET a1 == GMul(generator, w)
           a2 == GMul(prf.c.e1, w)
           d  == GMul(prf.c.e1, prf.sk)
           t  == Transcript(prf.pk, prf.c, d, a1, a2)
       IN \E e \in first_challenge(<< >>, t) :
            prf' = [ pc |-> "proved", sk |-> prf.sk, pk |-> prf.pk, c |-> prf.c,
                     w |-> w, t |-> t, e |-> e,
                     proof |-> generate_proof(prf.c, prf.sk, w, e) ]
  /\ UNCHANGED << solverVars, codec, vrf >>

\* The plaintext c decrypts to under sk.
Decrypt(c, sk) == GSub(c.e2, GMul(c.e1, sk))

\* What a verifier may check the proof against: the statement it was generated
\* for, or that statement with one of plaintext, e1, e2, public key replaced.
Statements(c, m, pk) ==
  { [ c |-> c, m |-> m, pk |-> pk, changed |-> "none" ] }
  \cup { [ c |-> c, m |-> v, pk |-> pk, changed |-> "plaintext" ] : v \in GroupSample \ { m } }
  \cup { [ c |-> [ e1 |-> v, e2 |-> c.e2 ], m |-> m, pk |-> pk, changed |-> "ciphertext" ] :
           v \in GroupSample \ { c.e1 } }
  \cup { [ c |-> [ e1 |-> c.e1, e2 |-> v ], m |-> m, pk |-> pk, changed |-> "ciphertext" ] :
           v \in GroupSample \ { c.e2 } }
  \cup { [ c |-> c, m |-> m, pk |-> v, changed |-> "public key" ] : v \in GroupSample \ { pk } }

\* proof.verify(c, m, pk)
Verify ==
  /\ prf.pc = "proved"
  /\ \E st \in Statements(prf.c, Decrypt(prf.c, prf.sk), prf.pk) :
       LET d == GSub(st.c.e2, st.m)
           t == Transcript(st.pk, st.c, d, prf.proof.a1, prf.proof.a2)
       IN \E e \in first_challenge([ x \in { prf.t } |-> prf.e ], t) :
            prf' = [ pc |-> "verified", sk |-> prf.sk, pk |-> prf.pk, c |-> prf.c,
                     w |-> prf.w, t |-> prf.t, e |-> prf.e, proof |-> prf.proof,
                     st |-> st, vt |-> t, ve |-> e,
                     verdict |-> verify(prf.proof, st.c, st.m, st.pk, e) ]
  /\ UNCHANGED << solverVars, codec, vrf >>

NextProof == Generate \/ Verify

ProofSpec == InitProof /\ [][NextProof]_vars

\* C4: for every key pair, ciphertext and random scalar, the proof generate
\* produced verifies against the ciphertext, the plaintext the ciphertext
\* decrypts to, and the public key.
C4_Completeness ==
  ( prf.pc = "verified" /\ prf.st.changed = "none" ) => prf.verdict

\* C4 witness: an honest proof for a non-trivial key, ciphertext and challenge
\* has been verified and accepted.
C4_Witness ==
  /\ prf.pc = "verified"
  /\ prf.st.changed = "none"
  /\ prf.sk > 1 /\ prf.c.e1 > 1 /\ prf.w > 0 /\ prf.e > 1
  /\ prf.verdict

\* C5 as stated: verified against a different plaintext, ciphertext or public
\* key, with the challenges of the two transcripts different, the proof is
\* rejected.
C5_MutatedStatementRejected ==
  ( prf.pc = "verified" /\ prf.st.changed # "none" /\ prf.ve # prf.e ) => ~prf.verdict

\* C5 as amended: the same, for a secret key that is not zero and, where the
\* public key is the one replaced, a ciphertext whose e1 is not the identity.
C5_MutatedStatementRejectedForProperKey ==
  ( /\ prf.pc = "verified"
    /\ prf.st.changed # "none"
    /\ prf.ve # prf.e
    /\ prf.sk # 0
    /\ prf.st.changed = "public key" => prf.c.e1 # zero )
  => ~prf.verdict

\* C5 witness: proofs of a proper key have been rejected against a changed
\* public key.
C5_Witness ==
  /\ prf.pc = "verified"
  /\ prf.st.changed = "public key"
  /\ prf.ve # prf.e
  /\ prf.sk # 0
  /\ prf.c.e1 # zero
  /\ ~prf.verdict

\* ------------------------------------------------------------ proof encoding

\* pub(crate) const PROOF_SIZE: usize = 2 * GroupElement::BYTES_LEN + Scalar::BYTES_LEN;
PROOF_SIZE == 2 * GroupElement_BYTES_LEN + Scalar_BYTES_LEN

\* The canonical fixed-width encoding of a number below GroupOrder: its
\* digits, least significant first.
RECURSIVE Digits(_, _)
Digits(n, width) ==
  IF width = 0 THEN << >> ELSE << n % ByteBase >> \o Digits(n \div ByteBase, width - 1)

RECURSIVE Number(_)
Number(bs) ==
  IF bs = << >> THEN 0 ELSE Head(bs) + ByteBase * Number(Tail(bs))

\* GroupElement::to_bytes and Scalar::to_bytes
GroupElement_to_bytes(g) == Digits(g, GroupElement_BYTES_LEN)

Scalar_to_bytes(x) == Digits(x, Scalar_BYTES_LEN)

\* GroupElement::from_bytes and Scalar::from_bytes: None (the empty tuple) for
\* bytes that are not the encoding of a group element or of a scalar.
GroupElement_from_bytes(bs) ==
  IF Len(bs) = GroupElement_BYTES_LEN /\ Number(bs) < GroupOrder THEN << Number(bs) >> ELSE << >>

Scalar_from_bytes(bs) ==
  IF Len(bs) = Scalar_BYTES_LEN /\ Number(bs) < GroupOrder THEN << Number(bs) >> ELSE << >>

\* output[lo..hi].copy_from_slice(src)
copy_from_slice(out, lo, hi, src) ==
  [ i \in 1 .. Len(out) |-> IF lo < i /\ i <= hi THEN src[i - lo] ELSE out[i] ]

\* &slice[lo..hi]
slice_range(bs, lo, hi) == SubSeq(bs, lo + 1, hi)

\* ProofDecrypt::to_slice_mut, on a buffer of PROOF_SIZE bytes
to_slice_mut(proof, out) ==
  LET o1 == copy_from_slice(out, 0, GroupElement_BYTES_LEN, GroupElement_to_bytes(proof.a1))
      o2 == copy_from_slice(o1, GroupElement_BYTES_LEN, 2 * GroupElement_BYTES_LEN,
                            GroupElement_to_bytes(proof.a2))
  IN copy_from_slice(o2, 2 * GroupElement_BYTES_LEN,
                     2 * GroupElement_BYTES_LEN + Scalar_BYTES_LEN, Scalar_to_bytes(proof.z))

\* ProofDecrypt::to_bytes
to_bytes(proof) == to_slice_mut(proof, [ i \in 1 .. PROOF_SIZE |-> 0 ])

None == [ tag |-> "None" ]

Some(proof) == [ tag |-> "Some", a1 |-> proof.a1, a2 |-> proof.a2, z |-> proof.z ]

\* A from_slice that reads a2 from the bytes of a1.
from_slice_reading_a1_twice(slice) ==
  IF Len(slice) # PROOF_SIZE THEN None
  ELSE LET a1 == GroupElement_from_bytes(slice_range(slice, 0, GroupElement_BYTES_LEN))
           a2 == GroupElement_from_bytes(slice_range(slice, 0, GroupElement_BYTES_LEN))
           z  == Scalar_from_bytes(slice_range(slice, 2 * GroupElement_BYTES_LEN,
                                               2 * GroupElement_BYTES_LEN + Scalar_BYTES_LEN))
       IN IF a1 = << >> THEN None
          ELSE IF a2 = << >> THEN None
          ELSE IF z = << >> THEN None
          ELSE Some([ a1 |-> a1[1], a2 |-> a2[1], z |-> z[1] ])

\* A from_slice that accepts any buffer of at least PROOF_SIZE bytes.
from_slice_accepting_longer(slice) ==
  IF Len(slice) < PROOF_SIZE THEN None
  ELSE LET a1 == GroupElement_from_bytes(slice_range(slice, 0, GroupElement_BYTES_LEN))
           a2 == GroupElement_from_bytes(slice_range(slice, GroupElement_BYTES_LEN,
                                                     2 * GroupElement_BYTES_LEN))
           z  == Scalar_from_bytes(slice_range(slice, 2 * GroupElement_BYTES_LEN,
                                               2 * GroupElement_BYTES_LEN + Scalar_BYTES_LEN))
       IN IF a1 = << >> THEN None
          ELSE IF a2 = << >> THEN None
          ELSE IF z = << >> THEN None
          ELSE Some([ a1 |-> a1[1], a2 |-> a2[1], z |-> z[1] ])

\* ProofDecrypt::from_slice: each `?` returns None at the first field that
\* does not decode.
from_slice(slice) ==
  IF Len(slice) # PROOF_SIZE THEN None
  ELSE LET a1 == GroupElement_from_bytes(slice_range(slice, 0, GroupElement_BYTES_LEN))
           a2 == GroupElement_from_bytes(slice_range(slice, GroupElement_BYTES_LEN,
                                                     2 * GroupElement_BYTES_LEN))
           z  == Scalar_from_bytes(slice_range(slice, 2 * GroupElement_BYTES_LEN,
                                               2 * GroupElement_BYTES_LEN + Scalar_BYTES_LEN))
       IN IF a1 = << >> THEN None
          ELSE IF a2 = << >> THEN None
          ELSE IF z = << >> THEN None
          ELSE Some([ a1 |-> a1[1], a2 |-> a2[1], z |-> z[1] ])

\* Proofs: every triple of two group elements and a scalar.
Proofs == [ a1 : GroupElements, a2 : GroupElements, z : Scalars ]

\* Buffers a caller may hand to from_slice: every length up to one more than
\* PROOF_SIZE, filled with the smallest and the largest bytes.
ByteSample == { 0, 1, ByteBase - 1 }

RawBuffers == UNION { [ 1 .. n -> ByteSample ] : n \in 0 .. (PROOF_SIZE + 1) }

\* Either a proof to be serialized and read back, or bytes received.
InitCodec ==
  /\ IdleSolver
  /\ prf = Idle
  /\ vrf = Idle
  /\ \/ \E proof \in Proofs : codec = [ pc |-> "proof", proof |-> proof ]
     \/ \E buf \in RawBuffers : codec = [ pc |-> "bytes", origin |-> "received", buf |-> buf ]

\* proof.to_bytes()
ToBytes ==
  /\ codec.pc = "proof"
  /\ codec' = [ pc |-> "bytes", origin |-> "to_bytes", proof |-> codec.proof,
                buf |-> to_bytes(codec.proof) ]
  /\ UNCHANGED << solverVars, prf, vrf >>

\* ProofDecrypt::from_slice(&buf)
FromSlice ==
  /\ codec.pc = "bytes"
  /\ codec' = [ codec EXCEPT !.pc = "decoded" ] @@ [ decoded |-> from_slice(codec.buf) ]
  /\ UNCHANGED << solverVars, prf, vrf >>

NextCodec == ToBytes \/ FromSlice

CodecSpec == InitCodec /\ [][NextCodec]_vars

\* C9: from_slice(p.to_bytes()) is the proof p, and to_bytes lays a1, a2, z
\* out at the byte ranges [0, W), [W, 2W), [2W, 2W + S).
C9_RoundTrip ==
  /\ ( codec.pc \in {"bytes", "decoded"} /\ codec.origin = "to_bytes" ) =>
       /\ Len(codec.buf) = PROOF_SIZE
       /\ SubSeq(codec.buf, 1, GroupElement_BYTES_LEN) = GroupElement_to_bytes(codec.proof.a1)
       /\ SubSeq(codec.buf, GroupElement_BYTES_LEN + 1, 2 * GroupElement_BYTES_LEN)
            = GroupElement_to_bytes(codec.proof.a2)
       /\ SubSeq(codec.buf, 2 * GroupElement_BYTES_LEN + 1, PROOF_SIZE)
            = Scalar_to_bytes(codec.proof.z)
  /\ ( codec.pc = "decoded" /\ codec.origin = "to_bytes" ) =>
       codec.decoded = Some(codec.proof)

\* C9 witness: a proof with three different fields, each needing both of its
\* bytes, has been serialized and read back.
C9_Witness ==
  /\ codec.pc = "decoded"
  /\ codec.origin = "to_bytes"
  /\ codec.proof.a1 >= ByteBase
  /\ codec.proof.a2 >= ByteBase
  /\ codec.proof.z >= ByteBase
  /\ codec.proof.a1 # codec.proof.a2
  /\ codec.proof.a2 # codec.proof.z
  /\ codec.decoded = Some(codec.proof)

\* The three fields of a buffer all decode.
FieldsDecode(buf) ==
  /\ GroupElement_from_bytes(SubSeq(buf, 1, GroupElement_BYTES_LEN)) # << >>
  /\ GroupElement_from_bytes(SubSeq(buf, GroupElement_BYTES_LEN + 1, 2 * GroupElement_BYTES_LEN)) # << >>
  /\ Scalar_from_bytes(SubSeq(buf, 2 * GroupElement_BYTES_LEN + 1, PROOF_SIZE)) # << >>

\* C10: from_slice returns None for every buffer whose length is not
\* PROOF_SIZE and for every buffer one of whose three fields does not decode;
\* it returns a proof only when all three decode, and then the three decoded
\* fields.
C10_DecodeFailsCleanly ==
  codec.pc = "decoded" =>
    /\ Len(codec.buf) # PROOF_SIZE => codec.decoded = None
    /\ ( Len(codec.buf) = PROOF_SIZE /\ ~FieldsDecode(codec.buf) ) => codec.decoded = None
    /\ codec.decoded # None =>
         /\ Len(codec.buf) = PROOF_SIZE
         /\ FieldsDecode(codec.buf)
         /\ codec.decoded.tag = "Some"
         /\ GroupElement_to_bytes(codec.decoded.a1) = SubSeq(codec.buf, 1, GroupElement_BYTES_LEN)
         /\ GroupElement_to_bytes(codec.decoded.a2)
              = SubSeq(codec.buf, GroupElement_BYTES_LEN + 1, 2 * GroupElement_BYTES_LEN)
         /\ Scalar_to_bytes(codec.decoded.z)
              = SubSeq(codec.buf, 2 * GroupElement_BYTES_LEN + 1, PROOF_SIZE)

\* C10 witness: a received buffer of the right length whose first two fields
\* decode and whose last does not has been refused.
C10_Witness ==
  /\ codec.pc = "decoded"
  /\ codec.origin = "received"
  /\ Len(codec.buf) = PROOF_SIZE
  /\ GroupElement_from_bytes(SubSeq(codec.buf, 1, GroupElement_BYTES_LEN)) # << >>
  /\ GroupElement_from_bytes(SubSeq(codec.buf, GroupElement_BYTES_LEN + 1, 2 * GroupElement_BYTES_LEN)) # << >>
  /\ Scalar_from_bytes(SubSeq(codec.buf, 2 * GroupElement_BYTES_LEN + 1, PROOF_SIZE)) = << >>
  /\ codec.decoded = None

\* ------------------------------------------------------------ VRF proof release

\* Inputs (data slices) the specification enumerates.
Inputs == 0 .. MaxInput

\* GroupElement::from_hash: a fixed map from inputs to group elements.
from_hash(input) == GMul(generator, from_u64(3 * input + 2))

\* dleq::Proof::PROOF_SIZE: a challenge and a response, two scalars.
dleq_PROOF_SIZE == 2 * Scalar_BYTES_LEN

\* pub const PROOF_SIZE: usize = dleq::Proof::PROOF_SIZE + GroupElement::BYTES_LEN;
VRF_PROOF_SIZE == dleq_PROOF_SIZE + GroupElement_BYTES_LEN

Value(x) == [ tag |-> "Some", val |-> x ]

\* dleq::Dleq { g1, h1, g2, h2 }
Dleq(g1, h1, g2, h2) == [ g1 |-> g1, h1 |-> h1, g2 |-> g2, h2 |-> h2 ]

\* What dleq hashes into the challenge: the statement and the two announcements.
dleq_transcript(d, a1, a2) == << d.g1, d.h1, d.g2, d.h2, a1, a2 >>

\* The challenge hash of dleq: as first_challenge, an arbitrary function.
dleq_challenge(oracle, transcript) ==
  IF transcript \in DOMAIN oracle THEN { oracle[transcript] } ELSE ScalarSample

\* dleq::generate(w, a, dleq), for the challenge c it derived from the
\* announcements g1 * w and g2 * w: the proof (c, z = w + a * c).
dleq_generate(w, sk, c) == [ c |-> c, z |-> SAdd(w, SMul(sk, c)) ]

\* The transcript dleq::verify hashes: the announcements are recomputed as
\* g1 * z - h1 * c and g2 * z - h2 * c.
dleq_verify_transcript(d, proof) ==
  dleq_transcript(d, GSub(GMul(d.g1, proof.z), GMul(d.h1, proof.c)),
                     GSub(GMul(d.g2, proof.z), GMul(d.h2, proof.c)))

\* dleq::verify(dleq, proof), for the hash h of that transcript.
dleq_verify(d, proof, h) == h = proof.c

\* SecretKey::verifiable_output
verifiable_output(sk, input) ==
  LET m_point == from_hash(input)
  IN [ m_point |-> m_point, u |-> GMul(m_point, sk) ]

\* The Dleq statement ProvenOutputSeed::verify builds.
verify_statement(pos, public_key, input) ==
  Dleq(generator, public_key, from_hash(input), pos.u)

\* ProvenOutputSeed::verify(public_key, input), for the hash h of the
\* transcript dleq::verify derives.
pos_verify(pos, public_key, input, h) ==
  dleq_verify(verify_statement(pos, public_key, input), pos.dleq_proof, h)

\* ProvenOutputSeed::bytes: u at [0, 32), the dleq proof (c, then z) at [32, 96).
pos_bytes(pos) ==
  LET o0 == [ i \in 1 .. VRF_PROOF_SIZE |-> 0 ]
      o1 == copy_from_slice(o0, 0, GroupElement_BYTES_LEN, GroupElement_to_bytes(pos.u))
      o2 == copy_from_slice(o1, GroupElement_BYTES_LEN,
                            GroupElement_BYTES_LEN + Scalar_BYTES_LEN,
                            Scalar_to_bytes(pos.dleq_proof.c))
  IN copy_from_slice(o2, GroupElement_BYTES_LEN + Scalar_BYTES_LEN, VRF_PROOF_SIZE,
                     Scalar_to_bytes(pos.dleq_proof.z))

\* dleq::Proof::from_bytes
dleq_from_bytes(bs) ==
  IF Len(bs) # dleq_PROOF_SIZE THEN None
  ELSE LET c == Scalar_from_bytes(slice_range(bs, 0, Scalar_BYTES_LEN))
           z == Scalar_from_bytes(slice_range(bs, Scalar_BYTES_LEN, dleq_PROOF_SIZE))
       IN IF c = << >> \/ z = << >> THEN None ELSE Value([ c |-> c[1], z |-> z[1] ])

\* ProvenOutputSeed::from_bytes_unverified
from_bytes_unverified(bytes) ==
  IF Len(bytes) # VRF_PROOF_SIZE THEN None
  ELSE LET u     == GroupElement_from_bytes(slice_range(bytes, 0, GroupElement_BYTES_LEN))
           proof == dleq_from_bytes(slice_range(bytes, GroupElement_BYTES_LEN, Len(bytes)))
       IN IF u = << >> THEN None
          ELSE IF proof = None THEN None
          ELSE Value([ u |-> u[1], dleq_proof |-> proof.val ])

\* A from_bytes that returns what it decoded without verifying it.
from_bytes_without_verify(public_key, bytes, input, h) ==
  from_bytes_unverified(bytes)

\* ProvenOutputSeed::from_bytes(public_key, bytes, input)
from_bytes(public_key, bytes, input, h) ==
  LET pos == from_bytes_unverified(bytes)
  IN IF pos = None THEN None
     ELSE IF pos_verify(pos.val, public_key, input, h) THEN Value(pos.val)
     ELSE None

\* ProvenOutputSeed::to_verifiable_output(public_key, input)
to_verifiable_output(pos, public_key, input, h) ==
  IF pos_verify(pos, public_key, input, h) THEN Value(pos.u) ELSE None

\* The bytes of a proof as a caller may receive them: unchanged, with one byte
\* replaced, with the last byte lost, or with a byte added.
Received(buf) ==
  { buf }
  \cup { [ buf EXCEPT ![i] = v ] : i \in 1 .. Len(buf), v \in ByteSample }
  \cup { SubSeq(buf, 1, Len(buf) - 1), buf \o << 0 >> }

\* A secret key; its public key is generator * sk.
InitVrf ==
  /\ IdleSolver
  /\ prf = Idle
  /\ codec = Idle
  /\ \E sk \in ScalarSample : vrf = [ pc |-> "key", sk |-> sk, pk |-> GMul(generator, sk) ]

\* SecretKey::evaluate(r, input), and the bytes of the proof
Evaluate ==
  /\ vrf.pc = "key"
  /\ \E input \in Inputs, r \in ScalarSample :
       LET vo == verifiable_output(vrf.sk, input)
           d  == Dleq(generator, vrf.pk, vo.m_point, vo.u)
           t  == dleq_transcript(d, GMul(d.g1, r), GMul(d.g2, r))
       IN \E c \in dleq_challenge(<< >>, t) :
            LET pos == [ u |-> vo.u, dleq_proof |-> dleq_generate(r, vrf.sk, c) ]
            IN vrf' = [ pc |-> "proved", sk |-> vrf.sk, pk |-> vrf.pk, input |-> input,
                        t |-> t, c |-> c, pos |-> pos, buf |-> pos_bytes(pos) ]
  /\ UNCHANGED << solverVars, prf, codec >>

\* The state after an entry point has returned `result` for the received
\* bytes, public key and input, h being the hash dleq::verify computed.
Released(call, bytes, public_key, input, h, result) ==
  [ pc |-> "released", sk |-> vrf.sk, pk |-> vrf.pk, input |-> vrf.input, t |-> vrf.t,
    c |-> vrf.c, pos |-> vrf.pos, buf |-> vrf.buf,
    call |-> call, arg_bytes |-> bytes, arg_pk |-> public_key, arg_input |-> input,
    h |-> h, result |-> result ]

\* The hash values dleq::verify may compute for the proof the bytes decode to.
VerifyHashes(bytes, public_key, input) ==
  LET pos == from_bytes_unverified(bytes)
  IN IF pos = None THEN { 0 }
     ELSE dleq_challenge([ x \in { vrf.t } |-> vrf.c ],
                         dleq_verify_transcript(verify_statement(pos.val, public_key, input),
                                                pos.val.dleq_proof))

\* ProvenOutputSeed::from_bytes(&public_key, &bytes, &input)
FromBytes ==
  /\ vrf.pc = "proved"
  /\ \E bytes \in Received(vrf.buf), public_key \in GroupSample, input \in Inputs :
       \E h \in VerifyHashes(bytes, public_key, input) :
          vrf' = Released("from_bytes", bytes, public_key, input, h,
                          from_bytes(public_key, bytes, input, h))
  /\ UNCHANGED << solverVars, prf, codec >>

\* from_bytes_unverified(&bytes).to_verifiable_output(&public_key, &input)
ToVerifiableOutput ==
  /\ vrf.pc = "proved"
  /\ \E bytes \in Received(vrf.buf), public_key \in GroupSample, input \in Inputs :
       /\ from_bytes_unverified(bytes) # None
       /\ \E h \in VerifyHashes(bytes, public_key, input) :
            vrf' = Released("to_verifiable_output", bytes, public_key, input, h,
                            to_verifiable_output(from_bytes_unverified(bytes).val,
                                                 public_key, input, h))
  /\ UNCHANGED << solverVars, prf, codec >>

NextVrf == Evaluate \/ FromBytes \/ ToVerifiableOutput

VrfSpec == InitVrf /\ [][NextVrf]_vars

\* The received bytes decode to a proof, and verify returns true for it with
\* the public key and the input the entry point was given.
DecodedProofVerifies ==
  LET pos == from_bytes_unverified(vrf.arg_bytes)
  IN /\ pos # None
     /\ pos_verify(pos.val, vrf.arg_pk, vrf.arg_input, vrf.h)

\* C11: from_bytes returns a proof, and to_verifiable_output returns the
\* output, only if the proof decoded from the bytes verifies against the
\* public key and the input given; when decoding fails or verify returns false
\* nothing is returned.  What is returned is the decoded proof, or its output u.
C11_ReleasedOnlyAfterVerification ==
  vrf.pc = "released" =>
    /\ vrf.result # None => DecodedProofVerifies
    /\ ~DecodedProofVerifies => vrf.result = None
    /\ ( vrf.result # None /\ vrf.call = "from_bytes" )
         => vrf.result = from_bytes_unverified(vrf.arg_bytes)
    /\ ( vrf.result # None /\ vrf.call = "to_verifiable_output" )
         => vrf.result = Value(from_bytes_unverified(vrf.arg_bytes).val.u)

\* C11 witness: from_bytes was given bytes that decode to a proof which does
\* not verify (a byte of the honest proof was replaced), and returned nothing.
C11_Witness ==
  /\ vrf.pc = "released"
  /\ vrf.call = "from_bytes"
  /\ vrf.arg_bytes # vrf.buf
  /\ vrf.arg_pk = vrf.pk
  /\ vrf.arg_input = vrf.input
  /\ from_bytes_unverified(vrf.arg_bytes) # None
  /\ ~DecodedProofVerifies
  /\ vrf.result = None

====
